---- MODULE Spec2Model ----
(***************************************************************************)
(* Model of the local-first assistant: the calendar availability/booking   *)
(* engine (calendar_manager.py), the text dispatch loop (orchestrator.py), *)
(* the local intent resolver (nlu_engine.py), the cloud proxy              *)
(* (cloud_proxy.py) and the privacy filter (privacy.py).                   *)
(*                                                                         *)
(* Time is counted in minutes from midnight of day 0.  A datetime reaches  *)
(* the database as its isoformat() string; the SQL comparisons are string  *)
(* comparisons of those, modelled by the fields <<day, hour, minute>>      *)
(* compared lexicographically.                                             *)
(***************************************************************************)
EXTENDS Integers, Sequences, FiniteSets, TLC

\* ----------------------------------------------------------------- bounds
\* Proposed start times are 15:00 + 30 min * k, k in 0..MaxSlot.
MaxSlot == 2
\* Number of booking requests (POST /api/calendar/book) a behaviour contains.
NumCallers == 2
\* Number of process_text calls that can be suspended at the same time.
NumRequests == 2

\* ------------------------------------------------------ program constants
\* _suggest_alternatives(..., limit=3)
SuggestLimit == 3
\* check_availability(..., duration_minutes=60), appt.get("duration", 60)
DefaultDuration == 60

StartTimes == {15 * 60 + 30 * k : k \in 0..MaxSlot}
\* main.py passes any integer duration on; 0 is the smallest degenerate one.
Durations == {0, 30, DefaultDuration}
Titles == {"Standup"}
\* The booking requests: independent clients sharing the one database file,
\* each calling book_appointment once.
Callers == 1..NumCallers
\* Coroutine slots of the event loop serving process_text.
Requests == 1..NumRequests

\* ------------------------------------------------------------- datetimes
IsoFormat(t) == <<t \div (24 * 60), (t % (24 * 60)) \div 60, t % 60>>

FromIso(s) == s[1] * 24 * 60 + s[2] * 60 + s[3]

\* SQLite's comparison of two TEXT values (BINARY collation) on isoformat strings.
IsoLess(a, b) ==
    \/ a[1] < b[1]
    \/ a[1] = b[1] /\ a[2] < b[2]
    \/ a[1] = b[1] /\ a[2] = b[2] /\ a[3] < b[3]

IsoLeq(a, b) == a = b \/ IsoLess(a, b)

\* ------------------------------------------------------------- variables
VARIABLES
    appointments,          \* rows of table appointments, in rowid order
    sqlite_sequence,       \* AUTOINCREMENT counter of table appointments
    appointments_columns,  \* column names of the table the database file holds
    call,                  \* per client: the booking in progress or last returned
    availability           \* the availability query answered from the present store, if any

calendar_vars == <<appointments, sqlite_sequence, appointments_columns, call, availability>>

VARIABLES
    active_sessions,   \* session id -> context dict of the orchestrator
    request,           \* per coroutine slot: the process_text call suspended in it
    reply,             \* the value process_text has just returned, until delivered
    cloud,             \* fields of the CloudProxy: enabled, user_consent, session
    config             \* Config: the API keys (true: set and non-empty)

dispatch_vars == <<active_sessions, request, reply, cloud, config>>

VARIABLES
    privacy,   \* the anonymize_text / deanonymize_text call under way: input and results
    nlu        \* the parse_intent call under way: input, Ollama outcome and result

function_vars == <<privacy, nlu>>

vars == <<calendar_vars, dispatch_vars, function_vars>>

\* Columns of the table _init_db creates.
InitDbColumns ==
    {"id", "title", "description", "start_datetime", "end_datetime", "attendees",
     "status", "created_at", "call_log_id"}

\* Columns the INSERT of book_appointment names.
InsertColumns ==
    {"title", "description", "start_datetime", "end_datetime", "attendees",
     "created_by", "call_log_id"}

\* ---------------------------------------------------- check_availability
\* Variant: only the third clause of the query, an appointment lying inside the
\* proposed interval.
ConflictClauseContained(r, dt, end_dt) ==
    /\ r.status # "cancelled"
    /\ IsoLeq(IsoFormat(dt), r.start_datetime) /\ IsoLeq(r.end_datetime, IsoFormat(end_dt))

ConflictClause(r, dt, end_dt) ==
    /\ r.status # "cancelled"
    /\ \/ IsoLess(r.start_datetime, IsoFormat(end_dt)) /\ IsoLess(IsoFormat(dt), r.end_datetime)
       \/ IsoLess(r.start_datetime, IsoFormat(end_dt)) /\ IsoLess(IsoFormat(dt), r.end_datetime)
       \/ IsoLeq(IsoFormat(dt), r.start_datetime) /\ IsoLeq(r.end_datetime, IsoFormat(end_dt))

ProbeClause(r, check, end_check) ==
    /\ r.status # "cancelled"
    /\ \/ IsoLess(r.start_datetime, IsoFormat(end_check)) /\ IsoLess(IsoFormat(check), r.end_datetime)
       \/ IsoLess(r.start_datetime, IsoFormat(end_check)) /\ IsoLess(IsoFormat(check), r.end_datetime)

\* The while loop of _suggest_alternatives.  Its state is <check, suggestions>,
\* with the values of `check` at the SELECTs executed so far kept alongside.
SuggestGuard(st, preferred) ==
    Len(st.suggestions) < SuggestLimit /\ st.check < preferred + 7 * 24 * 60

\* Variant: the probe advances by half an hour.
SuggestBodyHalfHour(rows, duration, st) ==
    LET end_check == st.check + duration
        taken == \E i \in 1..Len(rows) : ProbeClause(rows[i], st.check, end_check)
    IN [check |-> st.check + 30,
        suggestions |-> IF taken THEN st.suggestions ELSE Append(st.suggestions, st.check),
        probes |-> Append(st.probes, st.check)]

\* One pass through the loop body.
SuggestBody(rows, duration, st) ==
    LET end_check == st.check + duration
        taken == \E i \in 1..Len(rows) : ProbeClause(rows[i], st.check, end_check)
    IN [check |-> st.check + 60,
        suggestions |-> IF taken THEN st.suggestions ELSE Append(st.suggestions, st.check),
        probes |-> Append(st.probes, st.check)]

\* Largest number of loop iterations followed.
MaxIterations == 256

\* The loop run for at most n iterations from state st: an iteration tests the
\* guard and runs the body, and changes nothing once the guard has failed.
\* The iterations are grouped by halves to keep the evaluation shallow.
RECURSIVE SuggestWhile(_, _, _, _, _)
SuggestWhile(rows, preferred, duration, st, n) ==
    IF n = 1
    THEN IF SuggestGuard(st, preferred) THEN SuggestBody(rows, duration, st) ELSE st
    ELSE LET half == SuggestWhile(rows, preferred, duration, st, n \div 2)
         IN IF SuggestGuard(half, preferred)
            THEN SuggestWhile(rows, preferred, duration, half, n - n \div 2)
            ELSE half

\* The loop's state when it ends, or after MaxIterations iterations.
SuggestRun(rows, preferred, duration) ==
    SuggestWhile(rows, preferred, duration,
                 [check |-> preferred + 60, suggestions |-> <<>>, probes |-> <<>>],
                 MaxIterations)

\* Variant: the first probe is two hours after the preferred start.
SuggestAlternativesSkipsFirst(rows, preferred, duration) ==
    SuggestWhile(rows, preferred, duration,
                 [check |-> preferred + 120, suggestions |-> <<>>, probes |-> <<>>],
                 MaxIterations).suggestions

SuggestAlternatives(rows, preferred, duration) ==
    SuggestRun(rows, preferred, duration).suggestions

RECURSIVE MapSeq(_, _)
MapSeq(Op(_), s) == IF s = <<>> THEN <<>> ELSE <<Op(Head(s))>> \o MapSeq(Op, Tail(s))

ConflictSummary(r) == [id |-> r.id, title |-> r.title]

CheckAvailability(rows, dt, duration_minutes) ==
    LET end_dt == dt + duration_minutes
        conflicts == SelectSeq(rows, LAMBDA r : ConflictClause(r, dt, end_dt))
    IN IF conflicts = <<>>
       THEN [available |-> TRUE, conflicts |-> <<>>, suggested_times |-> <<>>]
       ELSE [available |-> FALSE,
             conflicts |-> MapSeq(ConflictSummary, conflicts),
             suggested_times |-> MapSeq(IsoFormat, SuggestAlternatives(rows, dt, duration_minutes))]

\* ------------------------------------------------------- book_appointment
NoAvail == [available |-> TRUE, conflicts |-> <<>>, suggested_times |-> <<>>]

\* What a calendar call returned: kind names the dict's shape.
\*   "none"        no call has returned
\*   "availability" the dict of check_availability
\*   "booked"      {success: True, appointment_id, message}
\*   "slot_taken"  {success: False, message, conflicts}
\*   "error"       {success: False, error}
NoResult ==
    [kind |-> "none", success |-> FALSE, appointment_id |-> 0, avail |-> NoAvail]

NotCalled == [pc |-> "new", title |-> "", dt |-> 0, duration |-> 0,
              concurrent |-> {}, result |-> NoResult]

InFlight == {c \in Callers : call[c].pc = "insert"}

NewRow(id, title, dt, duration) ==
    [id |-> id, title |-> title,
     start_datetime |-> IsoFormat(dt),
     end_datetime |-> IsoFormat(dt + duration),
     status |-> "confirmed"]

\* An availability query is answered in one step and its answer handed to the
\* client in the next, so the answer always describes the store it was computed from.
NotAsked == [asked |-> FALSE, dt |-> 0, duration |-> 0, result |-> NoAvail]

\* GET /api/calendar/availability: one check_availability call on one connection.
AvailabilityCall(dt, duration) ==
    /\ availability = NotAsked
    /\ availability' = [asked |-> TRUE, dt |-> dt, duration |-> duration,
                        result |-> CheckAvailability(appointments, dt, duration)]
    /\ UNCHANGED <<appointments, sqlite_sequence, appointments_columns, call>>
    /\ UNCHANGED <<dispatch_vars, function_vars>>

\* Variant: the result of the availability re-check is not looked at.
BookCheckIgnoresConflict(c, title, dt, duration) ==
    /\ availability = NotAsked
    /\ call[c].pc = "new"
    /\ \A d \in Callers : d < c => call[d].pc # "new"
    /\ call' = [call EXCEPT ![c] = [pc |-> "insert", title |-> title, dt |-> dt,
                                    duration |-> duration, concurrent |-> InFlight,
                                    result |-> NoResult]]
    /\ UNCHANGED <<appointments, sqlite_sequence, appointments_columns, availability>>
    /\ UNCHANGED <<dispatch_vars, function_vars>>

\* book_appointment up to the end of its availability re-check (its first connection).
BookCheck(c, title, dt, duration) ==
    /\ availability = NotAsked
    /\ call[c].pc = "new"
    /\ \A d \in Callers : d < c => call[d].pc # "new"
    /\ LET avail == CheckAvailability(appointments, dt, duration)
           mine == [pc |-> IF avail.available THEN "insert" ELSE "returned",
                    title |-> title, dt |-> dt, duration |-> duration,
                    concurrent |-> InFlight,
                    result |-> IF avail.available THEN NoResult
                               ELSE [kind |-> "slot_taken", success |-> FALSE,
                                     appointment_id |-> 0, avail |-> avail]]
       IN call' = [d \in Callers |->
                     IF d = c THEN mine
                     ELSE IF call[d].pc = "insert"
                          THEN [call[d] EXCEPT !.concurrent = @ \cup {c}]
                          ELSE call[d]]
    /\ UNCHANGED <<appointments, sqlite_sequence, appointments_columns, availability>>
    /\ UNCHANGED <<dispatch_vars, function_vars>>

\* book_appointment from its INSERT (on a second connection) to its return.
BookInsert(c) ==
    /\ availability = NotAsked
    /\ call[c].pc = "insert"
    /\ IF InsertColumns \ {"id"} \subseteq appointments_columns
       THEN LET id == sqlite_sequence + 1
            IN /\ appointments' = Append(appointments,
                                         NewRow(id, call[c].title, call[c].dt, call[c].duration))
               /\ sqlite_sequence' = id
               /\ call' = [call EXCEPT ![c].pc = "returned",
                                       ![c].result = [kind |-> "booked", success |-> TRUE,
                                                      appointment_id |-> id, avail |-> NoAvail]]
       ELSE \* sqlite3.OperationalError: table appointments has no column named created_by
            /\ call' = [call EXCEPT ![c].pc = "returned",
                                    ![c].result = [kind |-> "error", success |-> FALSE,
                                                   appointment_id |-> 0, avail |-> NoAvail]]
            /\ UNCHANGED <<appointments, sqlite_sequence>>
    /\ UNCHANGED <<appointments_columns, availability>>
    /\ UNCHANGED <<dispatch_vars, function_vars>>

AvailabilityReturn ==
    /\ availability.asked
    /\ availability' = NotAsked
    /\ UNCHANGED <<appointments, sqlite_sequence, appointments_columns, call>>
    /\ UNCHANGED <<dispatch_vars, function_vars>>


\* =================================================================== texts
\* A text is a sequence of tokens.  Three tokens are matched by the PII patterns
\* of PrivacyFilter (one per pattern); no other token, alone or with a neighbour, is
\* matched by a pattern, so re.sub acts token by token on these texts.
Emails == {"alice@example.com"}
Phones == {"555-123-4567"}
Names == {"John Smith"}

Texts ==
    { <<"is", "alice@example.com", "free">>,
      <<"book", "John Smith", "555-123-4567">>,
      <<"hello">> }

\* str.lower()
Lower(tok) ==
    IF tok = "John Smith" THEN "john smith"
    ELSE IF tok = "FREE" THEN "free"
    ELSE IF tok = "Todo" THEN "todo"
    ELSE tok

\* Variant: the name pattern is not configured.
PatternOrderNoName == <<"email", "phone">>

\* self.patterns, in dict order
PatternOrder == <<"email", "phone", "name">>

PatternMatches(pii_type, tok) ==
    \/ pii_type = "email" /\ tok \in Emails
    \/ pii_type = "phone" /\ tok \in Phones
    \/ pii_type = "name" /\ tok \in Names

\* f"[{pii_type.upper()}_{len(mapping)}]"
Placeholder(pii_type, n) ==
    LET names == [email |-> <<"[EMAIL_0]", "[EMAIL_1]", "[EMAIL_2]", "[EMAIL_3]", "[EMAIL_4]">>,
                  phone |-> <<"[PHONE_0]", "[PHONE_1]", "[PHONE_2]", "[PHONE_3]", "[PHONE_4]">>,
                  name |-> <<"[NAME_0]", "[NAME_1]", "[NAME_2]", "[NAME_3]", "[NAME_4]">>]
    IN names[pii_type][n + 1]

\* re.sub(pattern, repl, text) for one pattern: matches are replaced left to right,
\* each by a placeholder numbered by the size of the mapping so far.
RECURSIVE SubPattern(_, _, _, _)
SubPattern(pii_type, rest, done, mapping) ==
    IF rest = <<>>
    THEN [text |-> done, mapping |-> mapping]
    ELSE IF PatternMatches(pii_type, Head(rest))
         THEN LET placeholder == Placeholder(pii_type, Len(mapping))
              IN SubPattern(pii_type, Tail(rest), Append(done, placeholder),
                            Append(mapping, [placeholder |-> placeholder,
                                             original |-> Head(rest)]))
         ELSE SubPattern(pii_type, Tail(rest), Append(done, Head(rest)), mapping)

RECURSIVE AnonymizeFrom(_, _, _)
AnonymizeFrom(k, text, mapping) ==
    IF k > Len(PatternOrder)
    THEN [text |-> text, mapping |-> mapping]
    ELSE LET r == SubPattern(PatternOrder[k], text, <<>>, mapping)
         IN AnonymizeFrom(k + 1, r.text, r.mapping)

\* Variant: no pattern is applied.
AnonymizeTextIdentity(text) == [text |-> text, mapping |-> <<>>]

AnonymizeText(text) == AnonymizeFrom(1, text, <<>>)

\* ================================================================= intents
\* An intent dict.  intent, datetime and title are "absent" when the key is
\* missing; datetime is "null" for JSON null and "str" for a JSON string (the
\* only datetime values json.loads can produce); confidence is in tenths.
IntentDict(tag, datetime, title, extra, confidence) ==
    [intent |-> tag, datetime |-> datetime, title |-> title, extra |-> extra,
     confidence |-> confidence, source |-> "absent"]

\* The JSON objects the local model is taken to answer with.
ModelJson ==
    { IntentDict("check_availability", "absent", "absent", "none", 0),
      IntentDict("check_availability", "str", "absent", "none", 0),
      IntentDict("book_appointment", "absent", "str", "none", 0),
      IntentDict("book_appointment", "null", "str", "none", 0),
      IntentDict("book_appointment", "str", "str", "none", 0),
      IntentDict("create_task", "absent", "absent", "none", 0),
      IntentDict("create_task", "absent", "str", "none", 0),
      IntentDict("cancel_appointment", "absent", "absent", "none", 0),
      IntentDict("absent", "absent", "absent", "none", 0) }

\* What ollama.chat does: raise, or return content that holds no {...}, holds
\* one that is not JSON, or holds a JSON object.
OllamaOutcomes ==
    { [kind |-> k, json |-> IntentDict("unknown", "absent", "absent", "none", 0)] :
         k \in {"exception", "no_json", "bad_json"} }
    \cup { [kind |-> "json", json |-> j] : j \in ModelJson }

HasWord(text, word) == \E i \in 1..Len(text) : Lower(text[i]) = word

\* Variant: the booking keywords are looked for first.
RuleBasedFallbackBookFirst(text) ==
    IF HasWord(text, "book") \/ HasWord(text, "schedule")
    THEN IntentDict("book_appointment", "absent", "absent", "none", 5)
    ELSE IF HasWord(text, "available") \/ HasWord(text, "free")
    THEN IntentDict("check_availability", "absent", "absent", "none", 5)
    ELSE IF HasWord(text, "task") \/ HasWord(text, "todo")
    THEN IntentDict("create_task", "absent", "absent", "none", 5)
    ELSE IntentDict("unknown", "absent", "absent", "none", 3)

RuleBasedFallback(text) ==
    IF HasWord(text, "available") \/ HasWord(text, "free")
    THEN IntentDict("check_availability", "absent", "absent", "none", 5)
    ELSE IF HasWord(text, "book") \/ HasWord(text, "schedule")
    THEN IntentDict("book_appointment", "absent", "absent", "none", 5)
    ELSE IF HasWord(text, "task") \/ HasWord(text, "todo")
    THEN IntentDict("create_task", "absent", "absent", "none", 5)
    ELSE IntentDict("unknown", "absent", "absent", "none", 3)

\* Variant: a JSON answer keeps the confidence the model wrote, none here.
ParseIntentKeepsConfidence(text, outcome) ==
    IF outcome.kind = "exception" THEN RuleBasedFallback(text)
    ELSE IF outcome.kind = "no_json"
    THEN IntentDict("unknown", "absent", "absent", "text", 8)
    ELSE IF outcome.kind = "bad_json"
    THEN IntentDict("unknown", "absent", "absent", "raw", 8)
    ELSE outcome.json

ParseIntent(text, outcome) ==
    IF outcome.kind = "exception" THEN RuleBasedFallback(text)
    ELSE IF outcome.kind = "no_json"
    THEN IntentDict("unknown", "absent", "absent", "text", 8)
    ELSE IF outcome.kind = "bad_json"
    THEN IntentDict("unknown", "absent", "absent", "raw", 8)
    ELSE [outcome.json EXCEPT !.confidence = 8]

\* ============================================================ orchestrator
NeedDateTime == "I need a date and time to check availability."
NotSure == "I'm not sure how to help with that. Can you rephrase?"
MissingDetails == "I didn't get all the details. Please provide more information."
ExecutionError == "Sorry, I encountered an error processing your request."
TaskCreated == "Task created with ID {task_id}."

\* _execute_intent.  A datetime taken from an intent is a str or None, so
\* check_availability raises TypeError at `dt + timedelta(...)` before any SQL
\* runs; book_appointment does the same through its availability re-check.
\* The result carries the store the dispatch leaves behind.
\* Variant: a book_appointment intent without the datetime key books the
\* default slot.
ExecuteIntentDefaultSlot(intent, rows, task_outcome) ==
    IF intent.intent = "book_appointment" /\ intent.datetime = "absent"
    THEN [response |-> MissingDetails,
          appointments |-> Append(rows, NewRow(Len(rows) + 1, "Standup", 15 * 60,
                                               DefaultDuration))]
    ELSE [response |-> NotSure, appointments |-> rows]

\* Variant: a cancel_appointment intent removes the oldest appointment.
ExecuteIntentCancelDeletes(intent, rows, task_outcome) ==
    IF intent.intent = "cancel_appointment" /\ rows # <<>>
    THEN [response |-> NotSure, appointments |-> Tail(rows)]
    ELSE IF intent.intent = "create_task" /\ intent.title # "absent"
                                          /\ task_outcome = "created"
    THEN [response |-> TaskCreated, appointments |-> rows]
    ELSE [response |-> NotSure, appointments |-> rows]

ExecuteIntent(intent, rows, task_outcome) ==
    LET intent_type == IF intent.intent = "absent" THEN "unknown" ELSE intent.intent
    IN IF intent_type = "check_availability"
       THEN IF intent.datetime \in {"absent", "null"}
            THEN [response |-> NeedDateTime, appointments |-> rows]
            ELSE [response |-> ExecutionError, appointments |-> rows]
       ELSE IF intent_type = "book_appointment"
       THEN IF intent.datetime = "absent"
            THEN [response |-> MissingDetails, appointments |-> rows]
            ELSE [response |-> ExecutionError, appointments |-> rows]
       ELSE IF intent_type = "create_task"
       THEN IF intent.title = "absent"
            THEN [response |-> MissingDetails, appointments |-> rows]
            ELSE IF task_outcome = "created"
                 THEN [response |-> TaskCreated, appointments |-> rows]
                 ELSE [response |-> ExecutionError, appointments |-> rows]
       ELSE [response |-> NotSure, appointments |-> rows]

\* tasks.create_task either returns an id or raises.
TaskOutcomes == {"created", "raised"}

\* The outcomes of tasks.create_task that executing `intent` can meet.
TaskOutcomesOf(intent) ==
    IF intent.intent = "create_task" /\ intent.title # "absent"
    THEN TaskOutcomes ELSE {"created"}

\* Variant: the threshold itself escalates.
EscalatesAtThreshold(use_cloud, confidence) == use_cloud /\ confidence <= 7

\* use_cloud and intent_result.get("confidence", 1.0) < 0.7
Escalates(use_cloud, confidence) == use_cloud /\ confidence < 7

\* Variant: a failed escalation leaves the re-parsed (empty) intent.
AfterEscalationDropsLocal(local, cloud_result, reparsed) ==
    [reparsed EXCEPT !.source = "cloud"]

\* The intent process_text goes on with after the escalation step: the one
\* re-parsed from a non-empty cloud result, marked source=cloud, else the local one.
AfterEscalation(local, cloud_result, reparsed) ==
    IF cloud_result # <<>> THEN [reparsed EXCEPT !.source = "cloud"] ELSE local

\* call_llm(prompt, max_retries=2)
MaxRetries == 2

\* ============================================================ process_text
NoIntent == IntentDict("unknown", "absent", "absent", "none", 0)

NoContext == [present |-> FALSE, last_intent |-> NoIntent, last_response |-> ""]

SessionIds == {"A", "B"}

IdleRequest ==
    [pc |-> "idle", text |-> <<>>, session_id |-> "None", use_cloud |-> FALSE,
     local |-> NoIntent, attempt |-> 0, posts |-> 0, payload |-> <<>>, slept |-> <<>>,
     context |-> NoContext]

\* The dict process_text returned, with what the call went through: its
\* arguments, the locally resolved intent, whether call_llm was entered and
\* whether it gave a result, the POSTs made and the backoff delays slept.
NoReply ==
    [pending |-> FALSE, success |-> FALSE, response |-> "", intent |-> NoIntent,
     session_id |-> "None", use_cloud |-> FALSE, local |-> NoIntent,
     escalated |-> FALSE, cloud_answered |-> FALSE, posts |-> 0, slept |-> <<>>]

\* What one POST to the provider ends in: status 200 with a completion (possibly
\* empty), another status, asyncio.TimeoutError, or any other exception.
PostOutcomes ==
    { [kind |-> "ok", content |-> c] : c \in Texts \cup {<<>>} }
    \cup { [kind |-> k, content |-> <<>>] : k \in {"http_error", "timeout", "exception"} }

\* call_llm up to the choice of provider: "none" when it returns None at once,
\* else the provider and the prompt handed to it.
\* Variant: consent is not looked at.
CallLlmNoConsent(prompt) ==
    IF ~cloud.enabled
    THEN [provider |-> "none", prompt |-> <<>>]
    ELSE IF config.OPENAI_API_KEY
    THEN [provider |-> "openai", prompt |-> AnonymizeText(prompt).text]
    ELSE [provider |-> "none", prompt |-> <<>>]

CallLlm(prompt) ==
    IF ~cloud.enabled \/ ~cloud.user_consent
    THEN [provider |-> "none", prompt |-> <<>>]
    ELSE LET anonymized == AnonymizeText(prompt).text
         IN IF config.OPENAI_API_KEY
            THEN [provider |-> "openai", prompt |-> anonymized]
            ELSE IF config.ANTHROPIC_API_KEY
            THEN [provider |-> "anthropic", prompt |-> <<>>]
            ELSE [provider |-> "none", prompt |-> <<>>]

\* Variant: the context of the first session is read whatever the identifier.
GetContextShared(sessions, session_id) ==
    IF session_id = "None" THEN NoContext ELSE sessions["A"]

\* self.active_sessions.get(session_id, {}) if session_id else {}
GetContext(sessions, session_id) ==
    IF session_id \in SessionIds THEN sessions[session_id] ELSE NoContext

\* Variant: the intent stored is the locally resolved one of the context read.
UpdateSessionKeepsIntent(sessions, session_id, context, intent_result, response) ==
    IF session_id \in SessionIds
    THEN [sessions EXCEPT ![session_id] =
            [present |-> TRUE, last_intent |-> context.last_intent,
             last_response |-> response]]
    ELSE sessions

\* Step 5: {**context, "last_intent": ..., "last_response": ...} under the key
\* session_id; both keys of the context read are overwritten.
UpdateSession(sessions, session_id, context, intent_result, response) ==
    IF session_id \in SessionIds
    THEN [sessions EXCEPT ![session_id] =
            [context EXCEPT !.present = TRUE, !.last_intent = intent_result,
                            !.last_response = response]]
    ELSE sessions

\* Variant: the session update is skipped when the stored context is no longer
\* the one the request read.
CompleteKeepsNewer(r, req, intent_result, escalated, cloud_result, task_outcome) ==
    LET done == ExecuteIntent(intent_result, appointments, task_outcome)
    IN /\ task_outcome \in TaskOutcomesOf(intent_result)
       /\ appointments' = done.appointments
       /\ active_sessions' =
             IF GetContext(active_sessions, req.session_id) = req.context
             THEN UpdateSession(active_sessions, req.session_id, req.context,
                                intent_result, done.response)
             ELSE active_sessions
       /\ reply' = [pending |-> TRUE, success |-> TRUE, response |-> done.response,
                    intent |-> intent_result,
                    session_id |-> req.session_id, use_cloud |-> req.use_cloud,
                    local |-> req.local, escalated |-> escalated,
                    cloud_answered |-> cloud_result # <<>>, posts |-> req.posts,
                    slept |-> req.slept]
       /\ request' = [request EXCEPT ![r] = IdleRequest]

\* Steps 4 and 5 of process_text and its return, for the request in slot r.
Complete(r, req, intent_result, escalated, cloud_result, task_outcome) ==
    LET done == ExecuteIntent(intent_result, appointments, task_outcome)
    IN /\ task_outcome \in TaskOutcomesOf(intent_result)
       /\ appointments' = done.appointments
       /\ active_sessions' = UpdateSession(active_sessions, req.session_id, req.context,
                                           intent_result, done.response)
       /\ reply' = [pending |-> TRUE, success |-> TRUE, response |-> done.response,
                    intent |-> intent_result,
                    session_id |-> req.session_id, use_cloud |-> req.use_cloud,
                    local |-> req.local, escalated |-> escalated,
                    cloud_answered |-> cloud_result # <<>>, posts |-> req.posts,
                    slept |-> req.slept]
       /\ request' = [request EXCEPT ![r] = IdleRequest]

\* One pass of the retry loop of _call_openai from the top of attempt `attempt`
\* to its next suspension: the POST when a ClientSession exists; without one
\* self.session.post raises AttributeError at once and the loop goes to its
\* backoff sleep, or ends after the last attempt.
Attempt(r, req, attempt, task_outcome) ==
    IF cloud.session = "open"
    THEN /\ task_outcome = "created"
         /\ request' = [request EXCEPT ![r] =
                          [req EXCEPT !.pc = "posting", !.attempt = attempt,
                                      !.posts = @ + 1]]
         /\ UNCHANGED <<appointments, active_sessions, reply>>
    ELSE IF attempt < MaxRetries
         THEN /\ task_outcome = "created"
              /\ request' = [request EXCEPT ![r] =
                               [req EXCEPT !.pc = "sleeping", !.attempt = attempt,
                                           !.slept = Append(@, 2 ^ attempt)]]
              /\ UNCHANGED <<appointments, active_sessions, reply>>
         ELSE Complete(r, req, AfterEscalation(req.local, <<>>, NoIntent), TRUE, <<>>,
                       task_outcome)

\* process_text from the return of its first parse_intent, whose result is
\* req.local, to its first suspension or, when nothing suspends it, to its return.
AfterParse(r, req, task_outcome) ==
    IF Escalates(req.use_cloud, req.local.confidence)
    THEN LET llm == CallLlm(req.text)
         IN IF llm.provider = "openai"
            THEN Attempt(r, [req EXCEPT !.payload = llm.prompt], 0, task_outcome)
            ELSE Complete(r, req, AfterEscalation(req.local, <<>>, NoIntent),
                          TRUE, <<>>, task_outcome)
    ELSE Complete(r, req, req.local, FALSE, <<>>, task_outcome)

\* process_text from its entry to its first suspension or, when nothing
\* suspends it, to its return.
ProcessText(r, text, session_id, use_cloud, ollama, task_outcome) ==
    /\ ~reply.pending
    /\ request[r].pc = "idle"
    /\ \A q \in Requests : q < r => request[q].pc # "idle"
    /\ AfterParse(r, [IdleRequest EXCEPT !.text = text, !.session_id = session_id,
                                        !.use_cloud = use_cloud,
                                        !.local = ParseIntent(text, ollama),
                                        !.context = GetContext(active_sessions, session_id)],
                  task_outcome)
    /\ UNCHANGED <<sqlite_sequence, appointments_columns, call, availability, cloud, config>>
    /\ UNCHANGED function_vars

\* The same call seen from the event loop.  parse_intent calls ollama.chat
\* synchronously inside the coroutine, so from that call to its return the
\* loop's thread runs nothing else.
LoopBusy == \E q \in Requests : request[q].pc = "resolving"

\* process_text from its entry to the call of ollama.chat.
OllamaCall(r, text, session_id, use_cloud) ==
    /\ ~LoopBusy
    /\ ~reply.pending
    /\ request[r].pc = "idle"
    /\ \A q \in Requests : q < r => request[q].pc # "idle"
    /\ request' = [request EXCEPT ![r] =
                     [IdleRequest EXCEPT !.pc = "resolving", !.text = text,
                                         !.session_id = session_id,
                                         !.use_cloud = use_cloud,
                                         !.context = GetContext(active_sessions, session_id)]]
    /\ UNCHANGED <<appointments, active_sessions, reply>>
    /\ UNCHANGED <<sqlite_sequence, appointments_columns, call, availability, cloud, config>>
    /\ UNCHANGED function_vars

\* ollama.chat returns or raises: process_text goes on to its first suspension
\* or its return.
OllamaReturns(r, ollama, task_outcome) ==
    /\ ~reply.pending
    /\ request[r].pc = "resolving"
    /\ AfterParse(r, [request[r] EXCEPT !.local = ParseIntent(request[r].text, ollama)],
                  task_outcome)
    /\ UNCHANGED <<sqlite_sequence, appointments_columns, call, availability, cloud, config>>
    /\ UNCHANGED function_vars

\* Variant: asyncio.TimeoutError is not caught inside the loop; the request
\* ends with no cloud result.
PostReturnsTimeoutAborts(r, outcome, ollama, task_outcome) ==
    /\ ~reply.pending
    /\ request[r].pc = "posting"
    /\ LET req == request[r]
       IN IF outcome.kind = "ok"
          THEN Complete(r, req,
                        AfterEscalation(req.local, outcome.content,
                                        ParseIntent(outcome.content, ollama)),
                        TRUE, outcome.content, task_outcome)
          ELSE IF req.attempt < MaxRetries /\ outcome.kind # "timeout"
          THEN /\ task_outcome = "created"
               /\ request' = [request EXCEPT ![r] =
                                [req EXCEPT !.pc = "sleeping",
                                            !.slept = Append(@, 2 ^ req.attempt)]]
               /\ UNCHANGED <<appointments, active_sessions, reply>>
          ELSE Complete(r, req, AfterEscalation(req.local, <<>>, NoIntent), TRUE, <<>>,
                        task_outcome)
    /\ UNCHANGED <<sqlite_sequence, appointments_columns, call, availability, cloud, config>>
    /\ UNCHANGED function_vars

\* The POST of slot r ends: process_text resumes, to its return or its backoff sleep.
PostReturns(r, outcome, ollama, task_outcome) ==
    /\ ~reply.pending
    /\ request[r].pc = "posting"
    /\ LET req == request[r]
       IN IF outcome.kind = "ok"
          THEN Complete(r, req,
                        AfterEscalation(req.local, outcome.content,
                                        ParseIntent(outcome.content, ollama)),
                        TRUE, outcome.content, task_outcome)
          ELSE IF req.attempt < MaxRetries
          THEN /\ task_outcome = "created"
               /\ request' = [request EXCEPT ![r] =
                                [req EXCEPT !.pc = "sleeping",
                                            !.slept = Append(@, 2 ^ req.attempt)]]
               /\ UNCHANGED <<appointments, active_sessions, reply>>
          ELSE Complete(r, req, AfterEscalation(req.local, <<>>, NoIntent), TRUE, <<>>,
                        task_outcome)
    /\ UNCHANGED <<sqlite_sequence, appointments_columns, call, availability, cloud, config>>
    /\ UNCHANGED function_vars

\* Variant: the backoff sleep never ends.
SleepNeverReturns(r, task_outcome) ==
    /\ request[r].pc = "sleeping"
    /\ UNCHANGED vars

\* The backoff sleep of slot r ends: the next attempt starts.
SleepReturns(r, task_outcome) ==
    /\ ~reply.pending
    /\ request[r].pc = "sleeping"
    /\ Attempt(r, request[r], request[r].attempt + 1, task_outcome)
    /\ UNCHANGED <<sqlite_sequence, appointments_columns, call, availability, cloud, config>>
    /\ UNCHANGED function_vars

\* The returned value reaches the caller of process_text.
Deliver ==
    /\ reply.pending
    /\ reply' = NoReply
    /\ UNCHANGED <<calendar_vars, active_sessions, request, cloud, config, function_vars>>

\* ====================================================== privacy and NLU calls
\* deanonymize_text: each mapping item in insertion order, str.replace of the
\* placeholder by the original over the whole text.
RECURSIVE DeanonymizeFrom(_, _, _)
DeanonymizeFrom(text, mapping, k) ==
    IF k > Len(mapping) THEN text
    ELSE DeanonymizeFrom([i \in 1..Len(text) |->
                             IF text[i] = mapping[k].placeholder
                             THEN mapping[k].original ELSE text[i]],
                         mapping, k + 1)

DeanonymizeText(anonymized, mapping) == DeanonymizeFrom(anonymized, mapping, 1)

\* Longest text handed to anonymize_text, in tokens.
MaxTextLen == 3

\* Tokens of those texts: one match of each pattern, a plain word, and a word
\* that has the shape of a placeholder.
TextTokens == {"alice@example.com", "555-123-4567", "John Smith", "hello", "[EMAIL_0]"}

AnyTexts == UNION {[1..n -> TextTokens] : n \in 0..MaxTextLen}

\* Texts handed to parse_intent: words of the fallback's vocabulary, two of
\* them with capitals, and a word outside it.  No word holds a keyword as a
\* proper substring, so `keyword in text_lower` is a test on whole words here.
KeywordTokens ==
    {"available", "free", "book", "schedule", "task", "todo", "FREE", "Todo", "hello"}

KeywordTexts == UNION {[1..n -> KeywordTokens] : n \in 1..(MaxTextLen - 1)}

ParseTexts == Texts \cup KeywordTexts

IdlePrivacy == [pc |-> "idle", text |-> <<>>, anonymized |-> <<>>, mapping |-> <<>>,
                restored |-> <<>>]
IdleNlu == [pc |-> "idle", text |-> <<>>, kind |-> "none",
            result |-> IntentDict("absent", "absent", "absent", "none", 0)]

\* A caller runs anonymize_text on a text.
AnonymizeCall(text) ==
    /\ privacy.pc = "idle" /\ nlu.pc = "idle"
    /\ LET res == AnonymizeText(text)
       IN privacy' = [pc |-> "anonymized", text |-> text, anonymized |-> res.text,
                      mapping |-> res.mapping, restored |-> <<>>]
    /\ UNCHANGED <<calendar_vars, dispatch_vars, nlu>>

\* The caller runs deanonymize_text on what anonymize_text returned.
DeanonymizeCall ==
    /\ privacy.pc = "anonymized"
    /\ privacy' = [privacy EXCEPT !.pc = "restored",
                      !.restored = DeanonymizeText(privacy.anonymized, privacy.mapping)]
    /\ UNCHANGED <<calendar_vars, dispatch_vars, nlu>>

\* A caller runs parse_intent on a text; outcome is what ollama.chat does.
ParseIntentCall(text, outcome) ==
    /\ privacy.pc = "idle" /\ nlu.pc = "idle"
    /\ nlu' = [pc |-> "returned", text |-> text, kind |-> outcome.kind,
               result |-> ParseIntent(text, outcome)]
    /\ UNCHANGED <<calendar_vars, dispatch_vars, privacy>>

\* The caller drops the results.
FunctionReturn ==
    /\ privacy.pc = "restored" \/ nlu.pc = "returned"
    /\ privacy' = IdlePrivacy
    /\ nlu' = IdleNlu
    /\ UNCHANGED <<calendar_vars, dispatch_vars>>

\* ========================================================== specifications
InitStore ==
    /\ appointments = <<>>
    /\ sqlite_sequence = 0
    /\ appointments_columns \in {InitDbColumns, InitDbColumns \cup {"created_by"}}
    /\ call = [c \in Callers |-> NotCalled]
    /\ availability = NotAsked

\* Variant: the proxy is constructed with consent given.
InitOrchestratorConsenting ==
    /\ active_sessions = [s \in SessionIds |-> NoContext]
    /\ request = [r \in Requests |-> IdleRequest]
    /\ reply = NoReply
    /\ config \in [ENABLE_CLOUD : BOOLEAN, OPENAI_API_KEY : BOOLEAN,
                   ANTHROPIC_API_KEY : BOOLEAN]
    /\ cloud = [enabled |-> config.ENABLE_CLOUD, user_consent |-> TRUE, session |-> "None"]

\* HybridOrchestrator.__init__ and CloudProxy.__init__.
InitOrchestrator ==
    /\ active_sessions = [s \in SessionIds |-> NoContext]
    /\ request = [r \in Requests |-> IdleRequest]
    /\ reply = NoReply
    /\ config \in [ENABLE_CLOUD : BOOLEAN, OPENAI_API_KEY : BOOLEAN,
                   ANTHROPIC_API_KEY : BOOLEAN]
    /\ cloud = [enabled |-> config.ENABLE_CLOUD, user_consent |-> FALSE, session |-> "None"]

\* Config with no environment variable set.
DefaultConfig ==
    [ENABLE_CLOUD |-> FALSE, OPENAI_API_KEY |-> FALSE, ANTHROPIC_API_KEY |-> FALSE]

\* The calendar API alone, the dispatch loop idle.
InitCalendar ==
    /\ InitStore /\ InitOrchestrator /\ config = DefaultConfig
    /\ privacy = IdlePrivacy /\ nlu = IdleNlu

NextCalendar ==
    \/ \E dt \in StartTimes, d \in Durations : AvailabilityCall(dt, d)
    \/ \E c \in Callers, t \in Titles, dt \in StartTimes, d \in Durations : BookCheck(c, t, dt, d)
    \/ \E c \in Callers : BookInsert(c)
    \/ AvailabilityReturn

SpecCalendar == InitCalendar /\ [][NextCalendar]_vars

\* The requests of SpecDispatch come one at a time and name one session or none.
OneAtATime == {1}
OneSession == {"A"}

\* The dispatch loop with a CloudProxy whose user_consent and session the
\* embedding application has set as the class asks it to ("must be set per
\* request/session", `async with`), or has left as constructed.
InitDispatch ==
    \* a database file in which the calendar API has booked one appointment
    /\ appointments = <<NewRow(1, "Standup", 15 * 60, DefaultDuration)>>
    /\ sqlite_sequence = 1
    /\ appointments_columns = InitDbColumns \cup {"created_by"}
    /\ call = [c \in Callers |-> NotCalled]
    /\ availability = NotAsked
    /\ active_sessions = [s \in SessionIds |-> NoContext]
    /\ request = [r \in Requests |-> IdleRequest]
    /\ reply = NoReply
    /\ privacy = IdlePrivacy /\ nlu = IdleNlu
    /\ config \in [ENABLE_CLOUD : BOOLEAN, OPENAI_API_KEY : BOOLEAN,
                   ANTHROPIC_API_KEY : BOOLEAN]
    /\ cloud \in [enabled : {config.ENABLE_CLOUD}, user_consent : BOOLEAN,
                  session : {"None", "open"}]

NextDispatch ==
    \/ \E r \in OneAtATime :
          /\ request[r].pc = "idle" /\ ~reply.pending
          /\ \E text \in Texts, sid \in OneSession \cup {"None"}, use_cloud \in BOOLEAN,
                o \in OllamaOutcomes, t \in TaskOutcomes :
                ProcessText(r, text, sid, use_cloud, o, t)
    \/ \E r \in Requests :
          /\ request[r].pc = "posting" /\ ~reply.pending
          /\ \E out \in PostOutcomes, o \in OllamaOutcomes, t \in TaskOutcomes :
                PostReturns(r, out, o, t)
    \/ \E r \in Requests, t \in TaskOutcomes : SleepReturns(r, t)
    \/ Deliver

SpecDispatch == InitDispatch /\ [][NextDispatch]_vars

\* The event loop resumes a coroutine whose POST has ended (aiohttp's total
\* timeout bounds the POST) or whose sleep has run out, and the caller of
\* process_text takes the value returned.
DispatchFairness ==
    /\ \A r \in Requests :
          SF_vars(\E out \in PostOutcomes, o \in OllamaOutcomes, t \in TaskOutcomes :
                     PostReturns(r, out, o, t))
    /\ \A r \in Requests : SF_vars(\E t \in TaskOutcomes : SleepReturns(r, t))
    /\ WF_vars(Deliver)

SpecDispatchFair == SpecDispatch /\ DispatchFairness

\* Requests of several sessions in flight together.  A request is suspended only
\* inside call_llm, so the cloud is enabled and has a key and a ClientSession;
\* the local model fails or names a task, and every POST is answered.
SessionTexts == {<<"hello">>}

SessionOutcomes ==
    {o \in OllamaOutcomes :
        \/ o.kind = "exception"
        \/ o.kind = "json" /\ o.json.intent = "create_task" /\ o.json.title = "str"}

SessionPostOutcomes == {out \in PostOutcomes : out.kind = "ok" /\ out.content = <<"hello">>}

InitSessions ==
    /\ appointments = <<NewRow(1, "Standup", 15 * 60, DefaultDuration)>>
    /\ sqlite_sequence = 1
    /\ appointments_columns = InitDbColumns \cup {"created_by"}
    /\ call = [c \in Callers |-> NotCalled]
    /\ availability = NotAsked
    /\ active_sessions = [s \in SessionIds |-> NoContext]
    /\ request = [r \in Requests |-> IdleRequest]
    /\ reply = NoReply
    /\ config = [ENABLE_CLOUD |-> TRUE, OPENAI_API_KEY |-> TRUE, ANTHROPIC_API_KEY |-> FALSE]
    /\ cloud \in [enabled : {TRUE}, user_consent : BOOLEAN, session : {"open"}]
    /\ privacy = IdlePrivacy /\ nlu = IdleNlu

NextSessions ==
    \/ \E r \in Requests :
          /\ request[r].pc = "idle" /\ ~reply.pending
          /\ \E text \in SessionTexts, sid \in SessionIds \cup {"None"}, use_cloud \in BOOLEAN,
                o \in SessionOutcomes, t \in TaskOutcomes :
                ProcessText(r, text, sid, use_cloud, o, t)
    \/ \E r \in Requests :
          /\ request[r].pc = "posting" /\ ~reply.pending
          /\ \E out \in SessionPostOutcomes, o \in SessionOutcomes, t \in TaskOutcomes :
                PostReturns(r, out, o, t)
    \/ Deliver

SpecSessions == InitSessions /\ [][NextSessions]_vars

\* PrivacyLayer and NLUEngine called on their own, calendar and dispatch idle.
InitFunctions ==
    /\ InitStore /\ appointments_columns = InitDbColumns
    /\ InitOrchestrator /\ config = DefaultConfig
    /\ privacy = IdlePrivacy /\ nlu = IdleNlu

NextFunctions ==
    \/ \E text \in AnyTexts : AnonymizeCall(text)
    \/ DeanonymizeCall
    \/ \E text \in ParseTexts, outcome \in OllamaOutcomes : ParseIntentCall(text, outcome)
    \/ FunctionReturn

SpecFunctions == InitFunctions /\ [][NextFunctions]_vars

\* The program as main.py wires it: the orchestrator as constructed, on a
\* database file holding one appointment, serving process_text.
InitWired ==
    /\ appointments = <<NewRow(1, "Standup", 15 * 60, DefaultDuration)>>
    /\ sqlite_sequence = 1
    /\ appointments_columns = InitDbColumns \cup {"created_by"}
    /\ call = [c \in Callers |-> NotCalled]
    /\ availability = NotAsked
    /\ InitOrchestrator
    /\ privacy = IdlePrivacy /\ nlu = IdleNlu

NextWired ==
    \/ \E r \in OneAtATime :
          \E text \in Texts, sid \in OneSession \cup {"None"}, use_cloud \in BOOLEAN,
             o \in OllamaOutcomes, t \in TaskOutcomes :
             ProcessText(r, text, sid, use_cloud, o, t)
    \/ Deliver

SpecWired == InitWired /\ [][NextWired]_vars

\* The dispatch loop as its scheduler sees it: the coroutines of process_text
\* take turns on one thread; a step of one runs to its next await, and while a
\* coroutine is inside ollama.chat no other one is resumed.
LoopPostOutcomes ==
    {out \in PostOutcomes : out.kind = "timeout" \/ (out.kind = "ok" /\ out.content = <<"hello">>)}

LoopStart(r) ==
    \E text \in SessionTexts, sid \in SessionIds \cup {"None"}, use_cloud \in BOOLEAN :
        OllamaCall(r, text, sid, use_cloud)

LoopResolved(r) ==
    \E o \in SessionOutcomes, t \in TaskOutcomes : OllamaReturns(r, o, t)

LoopPostReturns(r) ==
    /\ ~LoopBusy
    /\ \E out \in LoopPostOutcomes, o \in SessionOutcomes, t \in TaskOutcomes :
          PostReturns(r, out, o, t)

LoopSleepReturns(r) ==
    /\ ~LoopBusy
    /\ \E t \in TaskOutcomes : SleepReturns(r, t)

LoopDeliver == ~LoopBusy /\ Deliver

NextLoop ==
    \/ \E r \in Requests : LoopStart(r)
    \/ \E r \in Requests : LoopResolved(r)
    \/ \E r \in Requests : LoopPostReturns(r)
    \/ \E r \in Requests : LoopSleepReturns(r)
    \/ LoopDeliver

SpecLoop == InitSessions /\ [][NextLoop]_vars

\* Largest number of rows in a store handed to the availability query.
MaxStoreRows == 2

\* Bookings book_appointment accepts: <<start, duration in minutes>>.  The last
\* two cover the probe horizon from 16:00 and from 17:00 on.
StoredBookings ==
    { <<15 * 60, 60>>, <<16 * 60, 0>>, <<16 * 60 + 30, 30>>,
      <<16 * 60, 8 * 24 * 60>>, <<17 * 60, 7 * 24 * 60>> }

StoreOf(bookings) ==
    [i \in 1..Len(bookings) |-> NewRow(i, "Standup", bookings[i][1], bookings[i][2])]

Stores == {StoreOf(b) : b \in UNION {[1..n -> StoredBookings] : n \in 0..MaxStoreRows}}

\* Durations of the availability queries; main.py passes any integer on.
QueryDurations == Durations \cup {-30, 90}

\* The availability query on a database file that earlier bookings filled.
InitSuggest ==
    /\ appointments \in Stores
    /\ sqlite_sequence = Len(appointments)
    /\ appointments_columns = InitDbColumns \cup {"created_by"}
    /\ call = [c \in Callers |-> NotCalled]
    /\ availability = NotAsked
    /\ InitOrchestrator /\ config = DefaultConfig
    /\ privacy = IdlePrivacy /\ nlu = IdleNlu

NextSuggest ==
    \/ \E dt \in StartTimes, d \in QueryDurations : AvailabilityCall(dt, d)
    \/ AvailabilityReturn

SpecSuggest == InitSuggest /\ [][NextSuggest]_vars

\* ============================================================ calendar claims
\* Half-open overlap of [s1, e1) and [s2, e2), on minutes.
Overlaps(s1, e1, s2, e2) == s1 < e2 /\ s2 < e1

RowStart(r) == FromIso(r.start_datetime)
RowEnd(r) == FromIso(r.end_datetime)

Returned(c) == call[c].pc = "returned"
CallEnd(c) == call[c].dt + call[c].duration

\* Rows that overlap [s, e) under the half-open rule and are not cancelled.
OverlappingRows(s, e) ==
    {i \in 1..Len(appointments) :
        /\ appointments[i].status # "cancelled"
        /\ Overlaps(RowStart(appointments[i]), RowEnd(appointments[i]), s, e)}

SeqToSet(q) == {q[i] : i \in 1..Len(q)}

\* C1: of two concurrent book_appointment calls with overlapping (non-empty)
\* intervals, on a store holding no other appointment and neither call meeting
\* a database error, exactly one returns
\* success and the other returns the slot-taken failure whose conflicts list
\* holds the winner's appointment.
C1_ExactlyOneWinner ==
    \A c, d \in Callers :
        ( /\ c # d /\ Returned(c) /\ Returned(d)
          /\ d \in call[c].concurrent
          /\ call[c].duration > 0 /\ call[d].duration > 0
          /\ Overlaps(call[c].dt, CallEnd(c), call[d].dt, CallEnd(d))
          /\ call[c].result.kind # "error" /\ call[d].result.kind # "error"
          /\ \A i \in 1..Len(appointments) :
                appointments[i].id \in {call[c].result.appointment_id,
                                        call[d].result.appointment_id} )
        => \/ /\ call[c].result.kind = "booked"
              /\ call[d].result.kind = "slot_taken"
              /\ \E k \in 1..Len(call[d].result.avail.conflicts) :
                    call[d].result.avail.conflicts[k].id = call[c].result.appointment_id
           \/ /\ call[d].result.kind = "booked"
              /\ call[c].result.kind = "slot_taken"
              /\ \E k \in 1..Len(call[c].result.avail.conflicts) :
                    call[c].result.avail.conflicts[k].id = call[d].result.appointment_id

\* C2: no two confirmed appointments of the store with non-empty intervals
\* overlap (half-open intervals).
C2_NoConfirmedOverlap ==
    \A i, j \in 1..Len(appointments) :
        ( /\ i < j
          /\ appointments[i].status = "confirmed"
          /\ appointments[j].status = "confirmed"
          /\ RowStart(appointments[i]) < RowEnd(appointments[i])
          /\ RowStart(appointments[j]) < RowEnd(appointments[j]) )
        => ~Overlaps(RowStart(appointments[i]), RowEnd(appointments[i]),
                     RowStart(appointments[j]), RowEnd(appointments[j]))

\* C8: check_availability answers available=false exactly when some stored,
\* not cancelled appointment overlaps the proposed interval under the half-open
\* rule, and its conflicts list is exactly those appointments.
C8_ConflictRule ==
    availability.asked =>
        LET hit == OverlappingRows(availability.dt, availability.dt + availability.duration)
        IN /\ availability.result.available = (hit = {})
           /\ SeqToSet(availability.result.conflicts)
                = {ConflictSummary(appointments[i]) : i \in hit}
           /\ Len(availability.result.conflicts) = Cardinality(hit)

\* C9: every suggested start time, taken with the requested duration, is
\* reported available by check_availability on the same store.
C9_SuggestionsAvailable ==
    availability.asked =>
        \A k \in 1..Len(availability.result.suggested_times) :
            CheckAvailability(appointments,
                              FromIso(availability.result.suggested_times[k]),
                              availability.duration).available

\* An hourly probe after p within the 7-day horizon that no stored appointment overlaps.
FreeProbeExists(p, duration) ==
    \E n \in 1..(7 * 24 - 1) : OverlappingRows(p + 60 * n, p + 60 * n + duration) = {}

\* C10: once a booking of [s, e) has returned success, an availability query
\* whose interval overlaps [s, e) is answered available=false with that
\* appointment (id and title) among the conflicts and, if a free hourly probe
\* exists, with a suggestion starting at or after e that does not overlap
\* [s, e); on an empty store the answer is available=true with no conflicts
\* and no suggestions.
C10_BookedSlotReported ==
    availability.asked =>
        LET p == availability.dt
            dur == availability.duration
            res == availability.result
        IN /\ appointments = <<>> =>
                 /\ res.available
                 /\ res.conflicts = <<>>
                 /\ res.suggested_times = <<>>
           /\ \A c \in Callers :
                 ( /\ Returned(c) /\ call[c].result.kind = "booked"
                   /\ Overlaps(call[c].dt, CallEnd(c), p, p + dur) )
                 => /\ ~res.available
                    /\ [id |-> call[c].result.appointment_id, title |-> call[c].title]
                          \in SeqToSet(res.conflicts)
                    /\ FreeProbeExists(p, dur) =>
                          \E k \in 1..Len(res.suggested_times) :
                             LET t == FromIso(res.suggested_times[k])
                             IN /\ t >= CallEnd(c)
                                /\ ~Overlaps(t, t + dur, call[c].dt, CallEnd(c))

\* A booked appointment, an overlapping query answered with a suggestion.
C10_Witness ==
    /\ availability.asked
    /\ ~availability.result.available
    /\ availability.result.suggested_times # <<>>
    /\ \E c \in Callers :
          /\ Returned(c) /\ call[c].result.kind = "booked"
          /\ call[c].duration > 0 /\ availability.duration > 0
          /\ availability.dt > call[c].dt
          /\ Overlaps(call[c].dt, CallEnd(c),
                      availability.dt, availability.dt + availability.duration)

\* ============================================================ dispatch claims
InFlightRequests == {r \in Requests : request[r].pc # "idle"}

PiiTokens == Emails \cup Phones \cup Names

\* C3: every prompt POSTed to the provider is the redacted text that
\* anonymize_text gives for the request text; it holds no token the PII
\* patterns match, and the payload carries nothing but that prompt.
C3_OnlyRedactedLeaves ==
    \A r \in Requests :
        request[r].pc = "posting" =>
            LET a == AnonymizeText(request[r].text)
            IN /\ request[r].payload = a.text
               /\ SeqToSet(request[r].payload) \cap PiiTokens = {}
               /\ \A k \in 1..Len(a.mapping) :
                     a.mapping[k].original \notin SeqToSet(request[r].payload)

\* A POST in flight for a text that holds PII.
C3_Witness ==
    \E r \in Requests :
        /\ request[r].pc = "posting"
        /\ SeqToSet(request[r].text) \cap PiiTokens # {}
        /\ request[r].payload # request[r].text

KeyConfigured == config.OPENAI_API_KEY \/ config.ANTHROPIC_API_KEY

\* C4: a POST to the provider is made only with cloud use enabled, user consent
\* given and an API key configured; when one of the three is missing, call_llm
\* gives no result and no POST is made.
C4_ProviderGate ==
    /\ \A r \in Requests :
          (request[r].pc = "posting" \/ request[r].posts > 0)
          => cloud.enabled /\ cloud.user_consent /\ KeyConfigured
    /\ (reply.pending /\ reply.posts > 0)
          => cloud.enabled /\ cloud.user_consent /\ KeyConfigured
    /\ (reply.pending /\ reply.escalated
        /\ ~(cloud.enabled /\ cloud.user_consent /\ KeyConfigured))
          => ~reply.cloud_answered /\ reply.posts = 0

\* A POST in flight.
C4_Witness ==
    \E r \in Requests : request[r].pc = "posting" /\ request[r].posts = 1

\* C5: call_llm is entered exactly when use_cloud is set and the locally
\* resolved confidence is below 0.7; at 0.7 and above it is not.
C5_EscalationGate ==
    /\ reply.pending =>
          (reply.escalated <=> (reply.use_cloud /\ reply.local.confidence < 7))
    /\ \A r \in InFlightRequests :
          request[r].use_cloud /\ request[r].local.confidence < 7
    /\ \A c \in 0..10 :
          /\ Escalates(TRUE, c) <=> c < 7
          /\ ~Escalates(FALSE, c)

\* A locally resolved intent (confidence 0.8) with use_cloud set, not escalated.
C5_Witness ==
    /\ reply.pending
    /\ reply.use_cloud
    /\ reply.local.confidence = 8
    /\ ~reply.escalated

\* C6: when the escalation step gives no result, process_text executes the
\* locally resolved intent unchanged and returns success=true.
C6_FallsBackToLocal ==
    (reply.pending /\ reply.escalated /\ ~reply.cloud_answered)
    => /\ reply.success
       /\ reply.intent = reply.local
       /\ \E t \in TaskOutcomesOf(reply.local) :
             reply.response = ExecuteIntent(reply.local, appointments, t).response

\* Three POSTs failed, both backoff delays were slept, the local intent was executed.
C6_Witness ==
    /\ reply.pending
    /\ reply.escalated
    /\ ~reply.cloud_answered
    /\ reply.posts = MaxRetries + 1
    /\ reply.slept = <<1, 2>>

\* process_text returns for a book_appointment intent without a datetime.
ReturnsBookingWithoutDatetime ==
    /\ ~reply.pending
    /\ reply'.pending
    /\ reply'.intent.intent = "book_appointment"
    /\ reply'.intent.datetime \in {"absent", "null"}

InsertReturns(c) == call[c].pc = "insert" /\ call'[c].pc = "returned"

\* C11: a book_appointment call that found its slot free succeeds: it stores
\* exactly one new row, of status confirmed, and returns success=true with an
\* appointment_id greater than every id stored before; the rows stored before
\* keep their ids.
C11_BookingSucceeds ==
    [][\A c \in Callers :
          InsertReturns(c) =>
             /\ call'[c].result.kind = "booked"
             /\ call'[c].result.success
             /\ Len(appointments') = Len(appointments) + 1
             /\ SubSeq(appointments', 1, Len(appointments)) = appointments
             /\ appointments'[Len(appointments')].status = "confirmed"
             /\ appointments'[Len(appointments')].id = call'[c].result.appointment_id
             /\ \A i \in 1..Len(appointments) :
                   appointments[i].id < call'[c].result.appointment_id]_vars

\* C12: every stored appointment has start < end.
C12_StoredIntervalsValid ==
    \A i \in 1..Len(appointments) :
        RowStart(appointments[i]) < RowEnd(appointments[i])

\* A step in which caller c calls book_appointment for a slot that overlaps a
\* stored, not cancelled appointment (half-open rule).
BooksTakenSlot(c) ==
    /\ call[c].pc = "new"
    /\ call'[c].pc # "new"
    /\ OverlappingRows(call'[c].dt, call'[c].dt + call'[c].duration) # {}

\* C13: book_appointment for a slot that overlaps a stored, not cancelled
\* appointment returns success=false with the conflicts list check_availability
\* gives for the slot, which names every overlapping appointment; it stores
\* nothing, and the call, once returned, is not run again.
C13_ConflictRejected ==
    [][\A c \in Callers :
          /\ BooksTakenSlot(c) =>
                LET avail == CheckAvailability(appointments, call'[c].dt, call'[c].duration)
                IN /\ call'[c].pc = "returned"
                   /\ call'[c].result.kind = "slot_taken"
                   /\ ~call'[c].result.success
                   /\ call'[c].result.avail.conflicts = avail.conflicts
                   /\ \A i \in OverlappingRows(call'[c].dt, call'[c].dt + call'[c].duration) :
                         ConflictSummary(appointments[i])
                            \in SeqToSet(call'[c].result.avail.conflicts)
                   /\ appointments' = appointments
                   /\ sqlite_sequence' = sqlite_sequence
          /\ (call[c].pc = "returned" /\ call[c].result.kind = "slot_taken")
                => /\ call'[c] = call[c]
                   /\ \A i \in 1..Len(appointments') :
                         appointments'[i].id # call[c].result.appointment_id]_vars

\* A booking of a non-empty interval was refused with a conflict.
C13_Witness ==
    \E c \in Callers :
        /\ Returned(c)
        /\ call[c].result.kind = "slot_taken"
        /\ call[c].duration > 0
        /\ call[c].result.avail.conflicts # <<>>
        /\ Len(appointments) = 1

\* ================================================ dispatch claims, replies
\* The texts _execute_intent can return.
ExecutionReplies == {NeedDateTime, NotSure, MissingDetails, ExecutionError, TaskCreated}

Replies == ~reply.pending /\ reply'.pending

\* C16: when process_text returns for a session identifier, that session's
\* context holds the intent executed and the reply returned by this request;
\* when it returns for no session identifier, the session map is unchanged.
C16_SessionUpdated ==
    [][Replies =>
          /\ reply'.success
          /\ IF reply'.session_id \in SessionIds
             THEN /\ active_sessions'[reply'.session_id].present
                  /\ active_sessions'[reply'.session_id].last_intent = reply'.intent
                  /\ active_sessions'[reply'.session_id].last_response = reply'.response
             ELSE active_sessions' = active_sessions]_vars

\* A session that already had a context holds the intent resolved by the cloud
\* for its latest request, not the local one.
C16_Witness ==
    /\ reply.pending
    /\ reply.session_id = "A"
    /\ reply.escalated
    /\ reply.cloud_answered
    /\ reply.intent # reply.local
    /\ reply.intent.intent = "create_task"
    /\ active_sessions["A"].last_intent = reply.intent
    /\ active_sessions["A"].last_response = reply.response

\* A step in which the request of slot r starts and is suspended in call_llm.
Suspends(r) == request[r].pc = "idle" /\ request'[r].pc # "idle"

C18_RoundTrip ==
    privacy.pc = "restored" => privacy.restored = privacy.text

PatternTypes == {"email", "phone", "name"}

ErrorKinds == {"exception", "no_json", "bad_json"}

\* C20: when the local model raises or answers with text that holds no JSON
\* or unparseable JSON, parse_intent returns the rule-based classification of
\* the text with confidence 0.5 (keyword matched) or 0.3 (unknown) and source
\* "fallback".
C20_FallbackOnError ==
    (nlu.pc = "returned" /\ nlu.kind \in ErrorKinds) =>
        /\ nlu.result.intent = RuleBasedFallback(nlu.text).intent
        /\ nlu.result.confidence = (IF nlu.result.intent = "unknown" THEN 3 ELSE 5)
        /\ nlu.result.source = "fallback"

\* ============================================================ suggestion claims
\* Offsets, in minutes after the preferred start, of the hourly probes inside
\* the 7-day horizon that overlap no stored, not cancelled appointment.
FreeOffsets(p, dur) ==
    {60 * n : n \in {m \in 1..(7 * 24 - 1) : OverlappingRows(p + 60 * m, p + 60 * m + dur) = {}}}

SuggestedOffsets ==
    [k \in 1..Len(availability.result.suggested_times) |->
        FromIso(availability.result.suggested_times[k]) - availability.dt]

\* C21: when the proposed slot conflicts, the suggestions are, in increasing
\* order, exactly the first 3 hourly probes preferred+1h, preferred+2h, ...
\* below preferred+7 days that overlap no stored appointment (all of them if
\* fewer than 3 exist); when the slot is free the suggestion list is empty.
C21_FirstFreeProbes ==
    availability.asked =>
        LET free == FreeOffsets(availability.dt, availability.duration)
            off == SuggestedOffsets
        IN IF availability.result.available
           THEN off = <<>>
           ELSE /\ Len(off) <= 3
                /\ \A k \in 1..Len(off) : off[k] \in free
                /\ \A k \in 1..(Len(off) - 1) : off[k] < off[k + 1]
                /\ \A f \in free :
                      \/ \E k \in 1..Len(off) : off[k] = f
                      \/ Len(off) = 3 /\ f > off[3]

\* A conflicting query whose first hourly probe is taken: the three suggestions
\* start two hours after the preferred start.
C21_Witness ==
    /\ availability.asked
    /\ ~availability.result.available
    /\ Len(SuggestedOffsets) = 3
    /\ SuggestedOffsets[1] = 120

\* C30: _suggest_alternatives ends, after at most 167 probes, and returns at most 3
\* start times, each strictly after the preferred start, strictly before
\* preferred+7 days and a whole number of hours after the preferred start, in
\* strictly increasing order.
C30_SuggestBounded ==
    availability.asked =>
        LET off == SuggestedOffsets
            run == SuggestRun(appointments, availability.dt, availability.duration)
        IN /\ ~SuggestGuard(run, availability.dt)
           /\ Len(run.probes) <= 167
           /\ Len(off) <= 3
           /\ \A k \in 1..Len(off) :
                 /\ off[k] > 0
                 /\ off[k] < 7 * 24 * 60
                 /\ off[k] % 60 = 0
           /\ \A k \in 1..(Len(off) - 1) : off[k] < off[k + 1]

\* The whole horizon has been probed, 167 SELECTs, and fewer than 3 probes were free.
C30_Witness ==
    /\ availability.asked
    /\ ~availability.result.available
    /\ Len(SuggestRun(appointments, availability.dt, availability.duration).probes) = 167
    /\ Len(SuggestedOffsets) = 1

\* ============================================================ retry claims
\* Backoff delays, in seconds, slept before attempt number n + 1.
DelaysBefore(n) == SubSeq(<<1, 2>>, 1, n)

\* C22: a remote call makes at most 3 attempts; it waits 1 s after a failed
\* first attempt and 2 s after a failed second one; after a failed third
\* attempt it returns no result without waiting; an attempt answered with
\* status 200 and a completion ends the call with no later attempt or wait; a
\* timeout of an attempt is a failed attempt like any other.
C22_RetryPolicy ==
    /\ [](\A r \in Requests :
            /\ request[r].pc \in {"posting", "sleeping"} => request[r].attempt <= 2
            /\ request[r].pc = "posting" =>
                  /\ request[r].slept = DelaysBefore(request[r].attempt)
                  /\ request[r].posts <= 3
            /\ request[r].pc = "sleeping" =>
                  /\ request[r].attempt < 2
                  /\ request[r].slept = DelaysBefore(request[r].attempt + 1))
    /\ [][\A r \in Requests, out \in PostOutcomes, o \in OllamaOutcomes, t \in TaskOutcomes :
             PostReturns(r, out, o, t) =>
                IF out.kind = "ok"
                THEN /\ request'[r].pc = "idle"
                     /\ reply'.pending
                     /\ reply'.cloud_answered = (out.content # <<>>)
                     /\ reply'.posts = request[r].posts
                     /\ reply'.slept = request[r].slept
                ELSE IF request[r].attempt < 2
                THEN /\ request'[r].pc = "sleeping"
                     /\ ~reply'.pending
                     /\ request'[r].posts = request[r].posts
                     /\ request'[r].slept = DelaysBefore(request[r].attempt + 1)
                ELSE /\ request'[r].pc = "idle"
                     /\ reply'.pending
                     /\ ~reply'.cloud_answered
                     /\ reply'.slept = <<1, 2>>]_vars

\* A call succeeded at its third attempt: three POSTs, the delays 1 s and 2 s
\* between them, and the completion as result.
C22_Witness ==
    /\ reply.pending
    /\ reply.escalated
    /\ reply.cloud_answered
    /\ reply.posts = 3
    /\ reply.slept = <<1, 2>>

\* ============================================================ frame claims
\* The intent lacks a field its action requires.
LacksRequiredField(intent) ==
    \/ intent.intent \in {"check_availability", "book_appointment"} /\ intent.datetime = "absent"
    \/ intent.intent = "create_task" /\ intent.title = "absent"

\* C23: when process_text returns a clarification reply because the intent
\* lacks a required field, the stored session contexts and the appointments
\* store are as they were before the request's final step.
C23_ClarificationLeavesState ==
    [][(Replies /\ LacksRequiredField(reply'.intent)
                /\ reply'.response \in {NeedDateTime, MissingDetails})
          => (active_sessions' = active_sessions /\ appointments' = appointments)]_vars

\* ============================================================ same-session claims
\* Requests other than r that are in flight for session s.
OthersInFlightFor(r, s) ==
    {q \in Requests \ {r} : request[q].pc # "idle" /\ request[q].session_id = s}

\* C24: when a request for a session returns, whatever requests for the same
\* session are in flight and whatever they or earlier ones stored, the
\* session's context becomes exactly the pair {last_intent, last_response}
\* of the returning request, and the requests still in flight are not held
\* back or changed by it.
C24_LastWriterWins ==
    [][\A r \in Requests :
          ( /\ request[r].pc # "idle" /\ request'[r].pc = "idle"
            /\ request[r].session_id \in SessionIds )
          => /\ active_sessions' =
                   [active_sessions EXCEPT ![request[r].session_id] =
                       [present |-> TRUE, last_intent |-> reply'.intent,
                        last_response |-> reply'.response]]
             /\ \A q \in OthersInFlightFor(r, request[r].session_id) :
                   request'[q] = request[q]]_vars

\* Two requests for session A overlapped: the one still waiting for its POST
\* read the context before the other, which has returned, stored its pair.
C24_Witness ==
    /\ reply.pending
    /\ reply.session_id = "A"
    /\ active_sessions["A"].present
    /\ active_sessions["A"].last_response = reply.response
    /\ \E q \in Requests :
          /\ request[q].pc = "posting"
          /\ request[q].session_id = "A"
          /\ ~request[q].context.present

\* ============================================================ scheduling claims
Waiting(r) == request[r].pc \in {"resolving", "posting", "sleeping"}

\* C25: while a request waits for its local intent resolution or inside its
\* remote call (a POST or a retry delay), a request of another session can
\* still be started, and one of another session whose POST or delay has ended
\* can still go on; nothing but the waiting request is held up.
C25_WaitConfined ==
    \A r \in Requests :
        (Waiting(r) /\ ~reply.pending) =>
            \A q \in Requests \ {r} :
                /\ (request[q].pc = "idle" /\ \A p \in Requests : p < q => request[p].pc # "idle")
                      => ENABLED LoopStart(q)
                /\ (request[q].pc = "posting" /\ request[q].session_id # request[r].session_id)
                      => ENABLED LoopPostReturns(q)
                /\ (request[q].pc = "sleeping" /\ request[q].session_id # request[r].session_id)
                      => ENABLED LoopSleepReturns(q)

\* ============================================================ dispatch-on-tag claims
\* C26: executing an intent never removes or alters a stored appointment; only
\* the tag book_appointment can add one; a check_availability intent changes
\* nothing in the store; the task-created reply comes from a create_task
\* intent only; cancel_appointment, unknown, a missing tag or any other tag
\* gives the rephrase reply and leaves the store unchanged.
C26_DispatchOnTag ==
    [][Replies =>
          LET tag == reply'.intent.intent
          IN /\ Len(appointments') >= Len(appointments)
             /\ SubSeq(appointments', 1, Len(appointments)) = appointments
             /\ appointments' # appointments => tag = "book_appointment"
             /\ tag = "check_availability" => reply'.response # TaskCreated
             /\ reply'.response = TaskCreated => tag = "create_task"
             /\ tag \notin {"check_availability", "book_appointment", "create_task"}
                   => (reply'.response = NotSure /\ appointments' = appointments)]_vars

\* A cancel_appointment intent was answered with the rephrase reply; the
\* appointment booked before is still stored.
C26_Witness ==
    /\ reply.pending
    /\ reply.intent.intent = "cancel_appointment"
    /\ reply.response = NotSure
    /\ appointments = <<NewRow(1, "Standup", 15 * 60, DefaultDuration)>>

\* ============================================================ fallback claims
\* The text holds the keyword, in any case.
Occurs(text, keyword) == \E i \in 1..Len(text) : Lower(text[i]) = keyword

\* C27: the rule-based fallback depends only on which keywords the text holds,
\* whatever their case, with this precedence: available/free gives
\* check_availability, else book/schedule gives book_appointment, else
\* task/todo gives create_task, else unknown; a match has confidence 0.5 and
\* unknown 0.3, both below the escalation threshold 0.7.
C27_FallbackPrecedence ==
    (nlu.pc = "returned" /\ nlu.kind = "exception") =>
        LET avail == Occurs(nlu.text, "available") \/ Occurs(nlu.text, "free")
            book == Occurs(nlu.text, "book") \/ Occurs(nlu.text, "schedule")
            task == Occurs(nlu.text, "task") \/ Occurs(nlu.text, "todo")
        IN /\ avail => nlu.result.intent = "check_availability"
           /\ (~avail /\ book) => nlu.result.intent = "book_appointment"
           /\ (~avail /\ ~book /\ task) => nlu.result.intent = "create_task"
           /\ (~avail /\ ~book /\ ~task) => nlu.result.intent = "unknown"
           /\ nlu.result.confidence = (IF avail \/ book \/ task THEN 5 ELSE 3)
           /\ nlu.result.confidence < 7
           /\ Escalates(TRUE, nlu.result.confidence)

\* The fallback classified a text holding a booking keyword and, after it, a
\* capitalised availability keyword.
C27_Witness ==
    /\ nlu.pc = "returned"
    /\ nlu.kind = "exception"
    /\ nlu.text = <<"book", "FREE">>
    /\ nlu.result.intent = "check_availability"
    /\ nlu.result.confidence = 5

\* ============================================================ confidence claims
\* C28: when the model call of parse_intent returns, with or without a JSON
\* object in its answer, the resolved intent has confidence 0.8 and
\* process_text does not escalate; a request is escalated only when its local
\* resolution took the exception fallback.  (A step from an idle slot is the
\* first step of process_text; its local intent is parse_intent's result.)
C28_ModelAnswerNotEscalated ==
    [][\A r \in Requests :
          (request[r].pc = "idle" /\ ~reply.pending
              /\ (request'[r].pc # "idle" \/ reply'.pending)) =>
             LET suspended == request'[r].pc # "idle"
                 local == IF suspended THEN request'[r].local ELSE reply'.local
                 use_cloud == IF suspended THEN request'[r].use_cloud ELSE reply'.use_cloud
                 escalated == suspended \/ reply'.escalated
             IN \A text \in Texts, o \in OllamaOutcomes :
                   local = ParseIntent(text, o) =>
                      /\ o.kind # "exception" => (local.confidence = 8 /\ ~escalated)
                      /\ escalated => /\ o.kind = "exception"
                                      /\ use_cloud
                                      /\ local.confidence \in {3, 5}]_vars

\* A request whose local model raised was classified by the fallback as an
\* availability question and escalated; the POST is under way.
C28_Witness ==
    \E r \in Requests :
        /\ request[r].pc = "posting"
        /\ request[r].attempt = 0
        /\ request[r].local.intent = "check_availability"
        /\ request[r].local.confidence = 5

\* ============================================================ consent claims
\* C29: user_consent is false after construction and no step changes it; in
\* every reachable state call_llm returns no result without anonymizing or
\* POSTing anything, no request is ever suspended, and every reply carries the
\* locally resolved intent, whatever use_cloud was.
C29_ConsentNeverGiven ==
    /\ [](/\ ~cloud.user_consent
          /\ \A text \in Texts : CallLlm(text) = [provider |-> "none", prompt |-> <<>>]
          /\ \A r \in Requests : request[r].pc = "idle"
          /\ reply.pending =>
                /\ reply.intent = reply.local
                /\ ~reply.cloud_answered
                /\ reply.posts = 0
                /\ reply.slept = <<>>)
    /\ [][cloud' = cloud]_vars

\* With the cloud enabled and an API key configured, a request with use_cloud
\* set and a low-confidence local intent entered call_llm and was answered
\* with its local intent.
C29_Witness ==
    /\ reply.pending
    /\ reply.use_cloud
    /\ reply.escalated
    /\ cloud.enabled
    /\ config.OPENAI_API_KEY
    /\ reply.local.confidence = 5
    /\ reply.intent = reply.local
    /\ reply.posts = 0

====
